---- MODULE Spec2Model ----
(***************************************************************************)
(* prepdocslib/pdfparser.py: LocalPdfParser.parse and                      *)
(* DocumentAnalysisParser.parse as state machines of an async generator    *)
(* and its caller, with table_to_html and figure_to_html.                  *)
(*                                                                         *)
(* A Python str is a sequence of one-character strings.  Python indices    *)
(* are 0-based and kept 0-based in idx, object_idx and the span offsets;   *)
(* a sequence s is read at s[i + 1].                                       *)
(***************************************************************************)
EXTENDS Integers, Sequences, FiniteSets, TLC

\* ------------------------------------------------------------------------
\* Bounds of the inputs
\* ------------------------------------------------------------------------
MaxPages == 2
MaxRegions == 2
MaxCells == 2
MaxBoundingRegions == 2

\* ------------------------------------------------------------------------
\* String literals of the source
\* ------------------------------------------------------------------------
Marker == <<"<","!","-","-"," ","P","a","g","e","B","r","e","a","k"," ","-","-",">">>
FigureOpen == <<"<","f","i","g","u","r","e",">","<","f","i","g","c","a","p","t","i","o","n",">">>
FigureBr == <<"<","b","r",">">>
FigureClose == <<"<","/","f","i","g","c","a","p","t","i","o","n",">","<","/","f","i","g","u","r","e",">">>
TableOpen == <<"<","f","i","g","u","r","e",">","<","t","a","b","l","e",">">>
TableClose == <<"<","/","t","a","b","l","e",">","<","/","f","i","g","u","r","e",">">>
TrOpen == <<"<","t","r",">">>
TrClose == <<"<","/","t","r",">">>
ColSpanAttr == <<" ","c","o","l","S","p","a","n","=">>
RowSpanAttr == <<" ","r","o","w","S","p","a","n","=">>
HeaderKinds == {"columnHeader", "rowHeader"}

\* str.strip() with no argument removes these from both ends.
Whitespace == {" ", "\n", "\t", "\r"}

\* ------------------------------------------------------------------------
\* str operations
\* ------------------------------------------------------------------------
StartsWith(s, p) == Len(s) >= Len(p) /\ SubSeq(s, 1, Len(p)) = p

RECURSIVE Flatten(_)
Flatten(ss) == IF ss = <<>> THEN <<>> ELSE Head(ss) \o Flatten(Tail(ss))

\* s.find(old): the 1-based place of the leftmost occurrence, 0 when none
str_find(s, old) ==
    LET at == {i \in 1..(Len(s) - Len(old) + 1) : SubSeq(s, i, i + Len(old) - 1) = old}
    IN  IF at = {} THEN 0 ELSE CHOOSE i \in at : \A j \in at : i <= j

\* s.replace(old, ""): the occurrences of old found scanning left to right,
\* without overlap, are removed; the result is not scanned again.
RECURSIVE str_remove(_, _)
str_remove(s, old) ==
    LET i == str_find(s, old)
    IN  IF i = 0 THEN s
        ELSE SubSeq(s, 1, i - 1) \o str_remove(SubSeq(s, i + Len(old), Len(s)), old)

RECURSIVE lstrip(_)
lstrip(s) == IF s # <<>> /\ Head(s) \in Whitespace THEN lstrip(Tail(s)) ELSE s

RECURSIVE rstrip(_)
rstrip(s) ==
    IF s # <<>> /\ s[Len(s)] \in Whitespace THEN rstrip(SubSeq(s, 1, Len(s) - 1)) ELSE s

strip(s) == rstrip(lstrip(s))

\* str(n) of a non-negative int
Digit(d) == <<"0","1","2","3","4","5","6","7","8","9">>[d + 1]

RECURSIVE str_int(_)
str_int(n) == IF n < 10 THEN <<Digit(n)>> ELSE str_int(n \div 10) \o <<Digit(n % 10)>>

\* html.escape(s), quote=True
escape_char(c) ==
    CASE c = "&" -> <<"&","a","m","p",";">>
      [] c = "<" -> <<"&","l","t",";">>
      [] c = ">" -> <<"&","g","t",";">>
      [] c = "\"" -> <<"&","q","u","o","t",";">>
      [] c = "'" -> <<"&","#","x","2","7",";">>
      [] OTHER -> <<c>>

html_escape(s) == Flatten([i \in 1..Len(s) |-> escape_char(s[i])])

\* ------------------------------------------------------------------------
\* DocumentAnalysisParser.table_to_html
\*   a table is [bounding_regions, spans, row_count, cells]; a cell is
\*   [row_index, column_index, kind, column_span, row_span, content], an
\*   optional int being <<>> (None) or <<n>>.  Cells are named by their
\*   0-based position in table.cells.
\* ------------------------------------------------------------------------
\* Variant: an insertion that is not stable, x goes before an equal key.
RECURSIVE insert_before_equal(_, _, _)
insert_before_equal(cells, sorted, x) ==
    IF sorted = <<>> THEN <<x>>
    ELSE IF cells[Head(sorted) + 1].column_index < cells[x + 1].column_index
         THEN <<Head(sorted)>> \o insert_before_equal(cells, Tail(sorted), x)
         ELSE <<x>> \o sorted

\* sorted(..., key=column_index) is stable: x goes after every element whose
\* key is not greater.
RECURSIVE insert_by_column(_, _, _)
insert_by_column(cells, sorted, x) ==
    IF sorted = <<>> THEN <<x>>
    ELSE IF cells[Head(sorted) + 1].column_index <= cells[x + 1].column_index
         THEN <<Head(sorted)>> \o insert_by_column(cells, Tail(sorted), x)
         ELSE <<x>> \o sorted

RECURSIVE sorted_by_column(_, _)
sorted_by_column(cells, js) ==
    IF js = <<>> THEN <<>>
    ELSE insert_by_column(cells,
                          sorted_by_column(cells, SubSeq(js, 1, Len(js) - 1)),
                          js[Len(js)])

\* [cell for cell in table.cells if cell.row_index == i], as positions
cells_of_row(cells, i) ==
    SelectSeq([j \in 1..Len(cells) |-> j - 1], LAMBDA j : cells[j + 1].row_index = i)

\* rows = [sorted(...) for i in range(table.row_count)]
table_rows(table) ==
    [r \in 1..table.row_count |->
        sorted_by_column(table.cells, cells_of_row(table.cells, r - 1))]

cell_tag(cell) == IF cell.kind \in HeaderKinds THEN <<"t","h">> ELSE <<"t","d">>

cell_spans(cell) ==
    (IF cell.column_span # <<>> /\ cell.column_span[1] > 1
        THEN ColSpanAttr \o str_int(cell.column_span[1]) ELSE <<>>)
    \o
    (IF cell.row_span # <<>> /\ cell.row_span[1] > 1
        THEN RowSpanAttr \o str_int(cell.row_span[1]) ELSE <<>>)

\* f"<{tag}{cell_spans}>{html.escape(cell.content)}</{tag}>"
cell_html(cell) ==
    <<"<">> \o cell_tag(cell) \o cell_spans(cell) \o <<">">>
    \o html_escape(cell.content) \o <<"<","/">> \o cell_tag(cell) \o <<">">>

row_html(cells, row_cells) ==
    TrOpen \o Flatten([n \in 1..Len(row_cells) |-> cell_html(cells[row_cells[n] + 1])])
    \o TrClose

table_to_html(table) ==
    LET rows == table_rows(table)
    IN  TableOpen \o Flatten([r \in 1..Len(rows) |-> row_html(table.cells, rows[r])])
        \o TableClose

\* ------------------------------------------------------------------------
\* DocumentAnalysisParser.figure_to_html
\*   a figure is [bounding_regions, spans, caption]; a bounding region is
\*   [page_number, polygon], the polygon a sequence of 8 numbers; caption is
\*   <<>> (None) or <<content>>.
\* ------------------------------------------------------------------------
region_box(region) ==
    <<region.polygon[1], region.polygon[2], region.polygon[5], region.polygon[6]>>

\* The for loop assigns bounding_box once per bounding region: the box of the
\* last region is the one left after the loop.
figure_bounding_box(figure) ==
    region_box(figure.bounding_regions[Len(figure.bounding_regions)])

\* figure.bounding_regions[0]["pageNumber"], 1-indexed
figure_page_number(figure) == figure.bounding_regions[1].page_number

\* the arguments of crop_image_from_pdf_page(doc, page_number - 1, bounding_box)
crop_args(figure) == <<figure_page_number(figure) - 1, figure_bounding_box(figure)>>

\* Variant: the caption is not looked at.
no_title(figure) == <<>>

\* (figure.caption and figure.caption.content) or ""
figure_title(figure) == IF figure.caption = <<>> THEN <<>> ELSE figure.caption[1]

\* f"<figure><figcaption>{figure_title}<br>{figure_description}</figcaption></figure>"
figure_html(figure, figure_description) ==
    FigureOpen \o figure_title(figure) \o FigureBr \o figure_description \o FigureClose

\* cu_manager.describe_image(cropped_img): the image describer is a
\* collaborator outside these files; it returns a description or raises.
Descriptions == {<<"d">>, <<" ">>}

describe_image_outcomes ==
    [ok : {TRUE}, description : Descriptions] \cup {[ok |-> FALSE, description |-> <<>>]}

\* ------------------------------------------------------------------------
\* The documents parsed
\* ------------------------------------------------------------------------
\* The content of one page.
PageSlices ==
    { <<"a","b","c">>,
      <<" ","a"," ">>,
      <<" ">> \o Marker \o <<"a"," ">>,
      <<"<","!","-","-"," ","P","a","g","e">> \o Marker
          \o <<"B","r","e","a","k"," ","-","-",">">> }

\* The spans of a region, relative to the start of the page it lies on:
\* two ranges with a gap, a middle slot, a whole short page, a range that runs
\* past the third slot, a range that starts one character before the page.
Shapes ==
    { <<[offset |-> 0, length |-> 1], [offset |-> 2, length |-> 1]>>,
      <<[offset |-> 1, length |-> 1]>>,
      <<[offset |-> 0, length |-> 3]>>,
      <<[offset |-> 2, length |-> 2]>>,
      <<[offset |-> -1, length |-> 2]>> }

Polygon == <<1, 1, 3, 1, 3, 2, 1, 2>>

TableBody ==
    [row_count |-> 1,
     cells |-> <<[row_index |-> 0, column_index |-> 0, kind |-> "columnHeader",
                  column_span |-> <<2>>, row_span |-> <<>>, content |-> <<"<">>]>>]

RECURSIVE Repeat(_, _)
Repeat(s, n) == IF n = 0 THEN <<>> ELSE s \o Repeat(s, n - 1)

PagesOf(slice, n) ==
    [k \in 1..n |->
        [page_number |-> k,
         spans |-> <<[offset |-> (k - 1) * Len(slice), length |-> Len(slice)]>>]]

shifted(shape, by) ==
    [n \in 1..Len(shape) |-> [offset |-> shape[n].offset + by, length |-> shape[n].length]]

SeqsUpTo(S, n) == UNION {[1..m -> S] : m \in 0..n}

as_table(page, spans) ==
    [bounding_regions |-> IF page = 0 THEN <<>> ELSE <<[page_number |-> page]>>,
     spans |-> spans, row_count |-> TableBody.row_count, cells |-> TableBody.cells]

as_figure(page, spans) ==
    [bounding_regions |->
        IF page = 0 THEN <<>> ELSE <<[page_number |-> page, polygon |-> Polygon]>>,
     spans |-> spans, caption |-> <<<<"F">>>>]

result(slice, n, tables, figures) ==
    [content |-> Repeat(slice, n), pages |-> PagesOf(slice, n),
     tables |-> tables, figures |-> figures]

\* A region of a one-page document: on page 1 with a shape that starts in the
\* content, or with no bounding region (page 0).
Placements ==
    {[page |-> 0, spans |-> <<[offset |-> 0, length |-> 1]>>]}
    \cup {[page |-> 1, spans |-> sh] : sh \in {x \in Shapes : x[1].offset >= 0}}

\* One page holding up to MaxRegions tables and figures together.
OnePageResults ==
    UNION { UNION {
        { result(slice, 1, [t \in DOMAIN ts |-> as_table(ts[t].page, ts[t].spans)],
                           [f \in DOMAIN fs |-> as_figure(fs[f].page, fs[f].spans)]) :
            fs \in SeqsUpTo(Placements, MaxRegions - Len(ts)) }
        : ts \in SeqsUpTo(Placements, MaxRegions) } : slice \in PageSlices }

\* What a page of a longer document holds: nothing, a table or a figure.
PageRegions ==
    {[kind |-> "none", shape |-> <<>>]} \cup [kind : {"table", "figure"}, shape : Shapes]

regions_of(kind, slice, holds) ==
    LET ps == SelectSeq([k \in 1..Len(holds) |-> k], LAMBDA k : holds[k].kind = kind)
    IN  [m \in 1..Len(ps) |-> [page |-> ps[m],
                               spans |-> shifted(holds[ps[m]].shape, (ps[m] - 1) * Len(slice))]]

\* Up to MaxPages pages, each holding at most one region that starts in the
\* content.
ManyPageResults ==
    UNION { UNION {
        { LET ts == regions_of("table", slice, holds)
              fs == regions_of("figure", slice, holds)
          IN  result(slice, n, [t \in DOMAIN ts |-> as_table(ts[t].page, ts[t].spans)],
                               [f \in DOMAIN fs |-> as_figure(fs[f].page, fs[f].spans)]) :
            holds \in {h \in [1..n -> PageRegions] :
                          n = 0 \/ h[1].kind = "none" \/ h[1].shape[1].offset >= 0} }
        : slice \in PageSlices } : n \in 0..MaxPages }

\* AnalyzeResult: content, pages, tables, figures
Results == OnePageResults \cup ManyPageResults

EmptyResult == [content |-> <<>>, pages |-> <<>>, tables |-> <<>>, figures |-> <<>>]

\* p.extract_text() of the pages of a local PDF
LocalTexts == {<<>>, <<"a","b">>, <<" ","a","\n">>}

\* ------------------------------------------------------------------------
\* State
\* ------------------------------------------------------------------------
VARIABLES
    parser,                     \* "local": LocalPdfParser, "di": DocumentAnalysisParser
    use_content_understanding,  \* self.use_content_understanding
    reader_pages,               \* LocalPdfParser: extract_text() of reader.pages
    form_recognizer_results,    \* the AnalyzeResult the service holds for the content
    pc,                         \* where the generator stands
    page_pos,                   \* position of the for loop in the pages, from 1
    offset,
    mask_chars,
    idx,
    page_text,
    added_objects,
    yielded,                    \* the Page records the caller has received
    requests,                   \* how many times the caller asked for a page
    calls,                      \* the calls issued to collaborators, in order
    emitted,                    \* what was appended to page_text: [slot, tag, text]
    assembled,                  \* page_text as it was before line 149
    polls,                      \* run_cu_image: what each status poll met, in order
    path,                       \* remove_blob: the argument, <<>> (None) or <<path>>
    container,                  \* remove_blob: the container, [exists, names]
    stored,                     \* remove_blob: the container as it was when the call began
    blobs                       \* remove_blob: the listed names not yet visited

vars == <<parser, use_content_understanding, reader_pages, form_recognizer_results,
          pc, page_pos, offset, mask_chars, idx, page_text, added_objects,
          yielded, requests, calls, emitted, assembled,
          polls, path, container, stored, blobs>>

\* What the parsers leave as it is: their inputs, and the state of
\* run_cu_image and remove_blob.
inputs == <<parser, use_content_understanding, reader_pages, form_recognizer_results,
            polls, path, container, stored, blobs>>

\* A container is [exists, names]: whether it exists and the blob names in it.
NoContainer == [exists |-> FALSE, names |-> {}]

\* run_cu_image and remove_blob are not running.
services_idle ==
    /\ polls = <<>>
    /\ path = <<>>
    /\ container = NoContainer
    /\ stored = NoContainer
    /\ blobs = {}

page_vars == <<page_pos, offset, mask_chars, idx, page_text, added_objects,
               emitted, assembled>>

\* ------------------------------------------------------------------------
\* One page of DocumentAnalysisParser.parse
\* ------------------------------------------------------------------------
NoneSlot == <<"NONE", -1>>

page_at(k) == form_recognizer_results.pages[k]

page_offset(k) == page_at(k).spans[1].offset

page_length(k) == page_at(k).spans[1].length

on_page(regions, k) ==
    SelectSeq(regions, LAMBDA r : /\ r.bounding_regions # <<>>
                                  /\ r.bounding_regions[1].page_number = page_at(k).page_number)

tables_on_page(k) == on_page(form_recognizer_results.tables, k)

figures_on_page(k) ==
    IF use_content_understanding THEN on_page(form_recognizer_results.figures, k) ELSE <<>>

\* The assignments mask_chars[idx] = (type, n) in the order the loops make
\* them, one entry per span.
region_writes(regions, type) ==
    Flatten([n \in 1..Len(regions) |->
                [m \in 1..Len(regions[n].spans) |->
                    [span |-> regions[n].spans[m], tag |-> <<type, n - 1>>]]])

\* Variant: the two loops in the other order.
figures_written_first(k) ==
    region_writes(figures_on_page(k), "FIGURE") \o region_writes(tables_on_page(k), "TABLE")

\* The loop over the tables comes first, the loop over the figures second.
page_writes(k) ==
    region_writes(tables_on_page(k), "TABLE") \o region_writes(figures_on_page(k), "FIGURE")

\* Variant: index 0 taken as out of range.
write_in_range_from_one(i, length) == i > 0 /\ i < length

\* if idx >= 0 and idx < page_length:
write_in_range(i, length) == i >= 0 /\ i < length

\* for i in range(span.length): idx = span.offset - page_offset + i;
\* if idx is in range: mask_chars[idx] = tag
write_span(mask, w, poffset) ==
    [j \in 1..Len(mask) |->
        IF \E i \in 0..(w.span.length - 1) :
              /\ w.span.offset - poffset + i = j - 1
              /\ write_in_range(w.span.offset - poffset + i, Len(mask))
        THEN w.tag ELSE mask[j]]

RECURSIVE apply_writes(_, _, _)
apply_writes(mask, ws, poffset) ==
    IF ws = <<>> THEN mask
    ELSE apply_writes(write_span(mask, Head(ws), poffset), Tail(ws), poffset)

\* mask_chars = [(ObjectType.NONE, None)] * page_length
blank_mask(k) == [j \in 1..page_length(k) |-> NoneSlot]

classify(k) == apply_writes(blank_mask(k), page_writes(k), page_offset(k))

\* Variant: the membership test always fails.
never_added(mask_char, added) == FALSE

\* mask_char in added_objects
is_added(mask_char, added) == mask_char \in added

\* Variant: the piece is put in front of the text.
put_first(text, piece) == piece \o text

\* page_text += piece
append_text(text, piece) == text \o piece

\* The loop over mask_chars from slot i on, up to the end of the page or to
\* the first figure not yet added, where the parser awaits figure_to_html.
RECURSIVE walk(_, _, _, _, _, _)
walk(k, mask, i, text, added, items) ==
    IF i >= Len(mask)
    THEN [idx |-> i, page_text |-> text, added_objects |-> added, emitted |-> items,
          at |-> "end"]
    ELSE LET mask_char == mask[i + 1]
             object_type == mask_char[1]
             object_idx == mask_char[2]
         IN  IF object_type = "NONE"
             THEN LET c == <<form_recognizer_results.content[page_offset(k) + i + 1]>>
                  IN  walk(k, mask, i + 1, append_text(text, c), added,
                           Append(items, [slot |-> i, tag |-> mask_char, text |-> c]))
             ELSE IF is_added(mask_char, added)
             THEN walk(k, mask, i + 1, text, added, items)
             ELSE IF object_type = "TABLE"
             THEN LET h == table_to_html(tables_on_page(k)[object_idx + 1])
                  IN  walk(k, mask, i + 1, append_text(text, h), added \cup {mask_char},
                           Append(items, [slot |-> i, tag |-> mask_char, text |-> h]))
             ELSE [idx |-> i, page_text |-> text, added_objects |-> added,
                   emitted |-> items, at |-> "figure"]

\* Variant: the marker is kept.
strip_only(text) == strip(text)

\* page_text.replace("<!-- PageBreak -->", "").strip()
postprocess(text) == strip(str_remove(text, Marker))

new_page(k, off, text) ==
    [page_num |-> page_at(k).page_number - 1, offset |-> off, text |-> text]

\* An entry of the log of calls: a call issued (analyze, crop, describe), or
\* its outcome (returned with the value in args, raised).
call(op, k, object_idx, args) ==
    [op |-> op, page_pos |-> k, object_idx |-> object_idx, args |-> args]

\* Variant: the offset grows by the length of the text before post-processing.
offset_before_trim(off, text) == off + Len(assembled)

\* offset += len(page_text)
next_offset(off, text) == off + Len(text)

\* The parser runs from slot i of page k to its next suspension: the yield of
\* the page, or the describe_image call of a figure (after the crop, which
\* may raise).
Continue(k, off, mask, i, text, added, items, log) ==
    LET w == walk(k, mask, i, text, added, items)
    IN  /\ page_pos' = k
        /\ offset' = off
        /\ mask_chars' = mask
        /\ idx' = w.idx
        /\ added_objects' = w.added_objects
        /\ emitted' = w.emitted
        /\ IF w.at = "end"
           THEN /\ assembled' = w.page_text
                /\ page_text' = postprocess(w.page_text)
                /\ yielded' = Append(yielded, new_page(k, off, postprocess(w.page_text)))
                /\ calls' = log
                /\ pc' = "yielded"
           ELSE LET object_idx == mask[w.idx + 1][2]
                    figure == figures_on_page(k)[object_idx + 1]
                    crop == call("crop", k, object_idx, crop_args(figure))
                IN  /\ assembled' = assembled
                    /\ page_text' = w.page_text
                    /\ yielded' = yielded
                    /\ \E cropped \in BOOLEAN :
                          IF cropped
                          THEN /\ calls' = log \o <<crop, call("describe", k, object_idx, <<>>)>>
                               /\ pc' = "describing"
                          ELSE /\ calls' = log \o <<crop, call("raised", k, object_idx, "crop")>>
                               /\ pc' = "failed"

\* Variant: added_objects is not emptied for the new page.
keeps_added_objects(k, off) == Continue(k, off, classify(k), 0, <<>>, added_objects, <<>>, calls)

\* The body of the for loop up to its first suspension: the mask is built,
\* page_text = "" and added_objects = set().
BeginPage(k, off) == Continue(k, off, classify(k), 0, <<>>, {}, <<>>, calls)

\* ------------------------------------------------------------------------
\* Actions
\* ------------------------------------------------------------------------
Init ==
    /\ \/ /\ parser = "di"
          /\ use_content_understanding \in BOOLEAN
          /\ form_recognizer_results \in Results
          /\ reader_pages = <<>>
       \/ /\ parser = "local"
          /\ use_content_understanding = FALSE
          /\ form_recognizer_results = EmptyResult
          /\ reader_pages \in SeqsUpTo(LocalTexts, MaxPages)
    /\ pc = "start"
    /\ page_pos = 0
    /\ offset = 0
    /\ mask_chars = <<>>
    /\ idx = 0
    /\ page_text = <<>>
    /\ added_objects = {}
    /\ yielded = <<>>
    /\ requests = 0
    /\ calls = <<>>
    /\ emitted = <<>>
    /\ assembled = <<>>
    /\ services_idle

\* The caller asks for the first page: the parser issues the analysis call.
Start ==
    /\ parser = "di"
    /\ pc = "start"
    /\ pc' = "analyzing"
    /\ requests' = requests + 1
    /\ calls' = Append(calls, call("analyze", 0, -1, <<>>))
    /\ UNCHANGED <<inputs, page_vars, yielded>>

\* Variant: a description for the second page is asked for during the analysis.
prefetches_next_page ==
    /\ pc = "analyzing"
    /\ pc' = "analyzing"
    /\ Len(calls) = 1
    /\ calls' = Append(calls, call("describe", 2, 0, <<>>))
    /\ UNCHANGED <<inputs, page_vars, yielded, requests>>

\* poller.result() returns: offset = 0 and the loop over the pages begins.
AnalyzeReturn ==
    /\ pc = "analyzing"
    /\ IF form_recognizer_results.pages = <<>>
       THEN /\ pc' = "done"
            /\ UNCHANGED <<page_vars, yielded, calls>>
       ELSE BeginPage(1, 0)
    /\ UNCHANGED <<inputs, requests>>

\* begin_analyze_document or poller.result() raises.
AnalyzeFail ==
    /\ pc = "analyzing"
    /\ pc' = "failed"
    /\ calls' = Append(calls, call("raised", 0, -1, "analyze"))
    /\ UNCHANGED <<inputs, page_vars, yielded, requests>>

\* The caller asks for the next page: the parser runs on from the yield.
\* After the last page the loop ends (pages.json is written, which the model
\* does not keep).
Resume ==
    /\ parser = "di"
    /\ pc = "yielded"
    /\ requests' = requests + 1
    /\ IF page_pos < Len(form_recognizer_results.pages)
       THEN BeginPage(page_pos + 1, next_offset(offset, page_text))
       ELSE /\ pc' = "done"
            /\ offset' = next_offset(offset, page_text)
            /\ UNCHANGED <<page_pos, mask_chars, idx, page_text, added_objects,
                           emitted, assembled, yielded, calls>>
    /\ UNCHANGED inputs

\* describe_image returns: figure_to_html returns the markup, which is added.
DescribeReturn ==
    /\ pc = "describing"
    /\ \E o \in {x \in describe_image_outcomes : x.ok} :
          LET mask_char == mask_chars[idx + 1]
              figure == figures_on_page(page_pos)[mask_char[2] + 1]
              h == figure_html(figure, o.description)
          IN  Continue(page_pos, offset, mask_chars, idx + 1, append_text(page_text, h),
                       added_objects \cup {mask_char},
                       Append(emitted, [slot |-> idx, tag |-> mask_char, text |-> h]),
                       Append(calls, call("returned", page_pos, mask_char[2], o.description)))
    /\ UNCHANGED <<inputs, requests>>

\* Variant: the description is asked for again after it raised.
describes_again ==
    /\ pc = "describing"
    /\ Len(calls) < 8
    /\ calls' = calls \o <<call("raised", page_pos, mask_chars[idx + 1][2], "describe"),
                           call("describe", page_pos, mask_chars[idx + 1][2], <<>>)>>
    /\ UNCHANGED <<inputs, page_vars, yielded, requests, pc>>

\* describe_image raises: the exception leaves parse.
DescribeFail ==
    /\ pc = "describing"
    /\ \E o \in {x \in describe_image_outcomes : ~x.ok} : pc' = "failed"
    /\ calls' = Append(calls, call("raised", page_pos, mask_chars[idx + 1][2], "describe"))
    /\ UNCHANGED <<inputs, page_vars, yielded, requests>>

\* The caller stops iterating after a page it received.
Abandon ==
    /\ pc = "yielded"
    /\ pc' = "abandoned"
    /\ UNCHANGED <<inputs, page_vars, yielded, requests, calls>>

\* LocalPdfParser.parse: each request runs to the next yield.
LocalNext ==
    /\ parser = "local"
    /\ pc \in {"start", "yielded"}
    /\ requests' = requests + 1
    /\ LET off == IF pc = "start" THEN 0 ELSE next_offset(offset, page_text)
       IN  /\ offset' = off
           /\ IF page_pos < Len(reader_pages)
              THEN /\ page_pos' = page_pos + 1
                   /\ page_text' = reader_pages[page_pos + 1]
                   /\ yielded' = Append(yielded, [page_num |-> page_pos, offset |-> off,
                                                  text |-> reader_pages[page_pos + 1]])
                   /\ pc' = "yielded"
              ELSE /\ pc' = "done"
                   /\ UNCHANGED <<page_pos, page_text, yielded>>
    /\ UNCHANGED <<inputs, mask_chars, idx, added_objects, calls, emitted, assembled>>

Next ==
    \/ Start
    \/ AnalyzeReturn
    \/ AnalyzeFail
    \/ Resume
    \/ DescribeReturn
    \/ DescribeFail
    \/ Abandon
    \/ LocalNext

Spec == Init /\ [][Next]_vars

\* ------------------------------------------------------------------------
\* table_to_html on its own: the table is tables[0] of a document without
\* pages, the markup returned is kept in page_text.
\* ------------------------------------------------------------------------
CellKinds == {"columnHeader", "rowHeader", "stubHead", "content"}

\* column_span and row_span of a cell: None, 1 or 2.
CellSpans == {<<<<>>, <<>>>>, <<<<1>>, <<2>>>>, <<<<2>>, <<1>>>>}

CellPlaces == [row_index : {0, 1}, column_index : {0, 1}, kind : CellKinds, spans : CellSpans]

RowCounts == {1, 2}

\* The n-th cell holds "<" when it is the first and the digits of n otherwise.
cell_content(n) == IF n = 1 THEN <<"<">> ELSE str_int(n)

Tables ==
    { [bounding_regions |-> <<[page_number |-> 1]>>, spans |-> <<>>, row_count |-> rc,
       cells |-> [n \in DOMAIN cs |->
                    [row_index |-> cs[n].row_index, column_index |-> cs[n].column_index,
                     kind |-> cs[n].kind, column_span |-> cs[n].spans[1],
                     row_span |-> cs[n].spans[2], content |-> cell_content(n)]]] :
        rc \in RowCounts, cs \in SeqsUpTo(CellPlaces, MaxCells) }

TableInit ==
    /\ parser = "table"
    /\ use_content_understanding = FALSE
    /\ form_recognizer_results \in
          {[content |-> <<>>, pages |-> <<>>, tables |-> <<t>>, figures |-> <<>>] :
              t \in Tables}
    /\ reader_pages = <<>>
    /\ pc = "start"
    /\ page_pos = 0
    /\ offset = 0
    /\ mask_chars = <<>>
    /\ idx = 0
    /\ page_text = <<>>
    /\ added_objects = {}
    /\ yielded = <<>>
    /\ requests = 0
    /\ calls = <<>>
    /\ emitted = <<>>
    /\ assembled = <<>>
    /\ services_idle

TableToHtml ==
    /\ parser = "table"
    /\ pc = "start"
    /\ page_text' = table_to_html(form_recognizer_results.tables[1])
    /\ pc' = "done"
    /\ UNCHANGED <<inputs, page_pos, offset, mask_chars, idx, added_objects, yielded,
                   requests, calls, emitted, assembled>>

TableNext == TableToHtml

SpecTable == TableInit /\ [][TableNext]_vars

\* ------------------------------------------------------------------------
\* figure_to_html on its own: the figure is figures[0] of a document without
\* pages, the markup returned is kept in page_text.
\* ------------------------------------------------------------------------
OtherPolygon == <<4, 4, 6, 4, 6, 5, 4, 5>>

BoundingRegions == [page_number : {1, 2}, polygon : {Polygon, OtherPolygon}]

\* figure.caption: None, a caption without text, a caption with text.
Captions == {<<>>, <<<<>>>>, <<<<"F">>>>}

Figures ==
    { [bounding_regions |-> rs, spans |-> <<>>, caption |-> c] :
        rs \in UNION {[1..n -> BoundingRegions] : n \in 1..MaxBoundingRegions},
        c \in Captions }

the_figure == form_recognizer_results.figures[1]

FigureInit ==
    /\ parser = "figure"
    /\ use_content_understanding = TRUE
    /\ form_recognizer_results \in
          {[content |-> <<>>, pages |-> <<>>, tables |-> <<>>, figures |-> <<f>>] :
              f \in Figures}
    /\ reader_pages = <<>>
    /\ pc = "start"
    /\ page_pos = 0
    /\ offset = 0
    /\ mask_chars = <<>>
    /\ idx = 0
    /\ page_text = <<>>
    /\ added_objects = {}
    /\ yielded = <<>>
    /\ requests = 0
    /\ calls = <<>>
    /\ emitted = <<>>
    /\ assembled = <<>>
    /\ services_idle

figure_unchanged ==
    UNCHANGED <<inputs, page_pos, offset, mask_chars, idx, added_objects, yielded,
                requests, emitted, assembled>>

\* Lines 168-179: the box and the page are computed, the page is cropped
\* (which may raise) and the description is asked for.
FigureCrop ==
    /\ parser = "figure"
    /\ pc = "start"
    /\ \E cropped \in BOOLEAN :
          IF cropped
          THEN /\ calls' = <<call("crop", 0, 0, crop_args(the_figure)),
                             call("describe", 0, 0, <<>>)>>
               /\ pc' = "describing"
          ELSE /\ calls' = <<call("crop", 0, 0, crop_args(the_figure)),
                             call("raised", 0, 0, "crop")>>
               /\ pc' = "failed"
    /\ page_text' = page_text
    /\ figure_unchanged

\* Lines 179-181: describe_image returns and the markup is returned.
FigureDescribed ==
    /\ parser = "figure"
    /\ pc = "describing"
    /\ \E o \in {x \in describe_image_outcomes : x.ok} :
          /\ calls' = Append(calls, call("returned", 0, 0, o.description))
          /\ page_text' = figure_html(the_figure, o.description)
    /\ pc' = "done"
    /\ figure_unchanged

\* Line 179: describe_image raises.
FigureDescribeFail ==
    /\ parser = "figure"
    /\ pc = "describing"
    /\ \E o \in {x \in describe_image_outcomes : ~x.ok} : pc' = "failed"
    /\ calls' = Append(calls, call("raised", 0, 0, "describe"))
    /\ page_text' = page_text
    /\ figure_unchanged

FigureNext ==
    \/ FigureCrop
    \/ FigureDescribed
    \/ FigureDescribeFail

SpecFigure == FigureInit /\ [][FigureNext]_vars

\* The parsers are not running: name says which other operation is.
parsers_idle(name) ==
    /\ parser = name
    /\ use_content_understanding = FALSE
    /\ form_recognizer_results = EmptyResult
    /\ reader_pages = <<>>
    /\ pc = "start"
    /\ page_pos = 0
    /\ offset = 0
    /\ mask_chars = <<>>
    /\ idx = 0
    /\ page_text = <<>>
    /\ added_objects = {}
    /\ yielded = <<>>
    /\ requests = 0
    /\ calls = <<>>
    /\ emitted = <<>>
    /\ assembled = <<>>

parsers_unchanged ==
    UNCHANGED <<parser, use_content_understanding, reader_pages, form_recognizer_results,
                page_pos, offset, mask_chars, idx, page_text, added_objects, yielded,
                requests, calls, emitted, assembled>>

\* ------------------------------------------------------------------------
\* ContentUnderstandingManager.run_cu_image (the async definition, which
\* replaces the one before it in the class body)
\*   polls is [n, last, retried]: the polls made, what the last one met, and
\*   what the polls met that were followed by another poll.
\* ------------------------------------------------------------------------
\* stop_after_attempt(60)
StopAfterAttempt == 60

\* What the body of poll() can meet: raise_for_status raises; response.json()
\* raises a ValueError (a body that is not JSON raises json.JSONDecodeError,
\* a subclass of ValueError); or the JSON holds one of the statuses.
Statuses == {"Running", "Failed", "Succeeded", "NotStarted"}

PollOutcomes == {"http_error", "undecodable"} \cup Statuses

\* The outcomes after which the body of poll() raises a ValueError.
raises_value_error(outcome) == outcome \in {"undecodable", "Running"}

\* The outcomes after which the body of poll() raises another exception.
raises_other(outcome) == outcome \in {"http_error", "Failed"}

\* retry=retry_if_exception_type(ValueError), stop=stop_after_attempt(60)
retries(outcome, n) == raises_value_error(outcome) /\ n < StopAfterAttempt

polled(outcome) ==
    [n |-> polls.n + 1, last |-> outcome,
     retried |-> IF polls.n = 0 THEN {} ELSE polls.retried \cup {polls.last}]

cu_unchanged == parsers_unchanged /\ UNCHANGED <<path, container, stored, blobs>>

CuInit ==
    /\ parsers_idle("cu")
    /\ polls = [n |-> 0, last |-> "none", retried |-> {}]
    /\ path = <<>>
    /\ container = NoContainer
    /\ stored = NoContainer
    /\ blobs = {}

\* Lines 111-124: the token is fetched and the image posted; either may
\* raise, and so may reading the Operation-Location header.
CuPost ==
    /\ parser = "cu"
    /\ pc = "start"
    /\ \E posted \in BOOLEAN : pc' = IF posted THEN "polling" ELSE "failed"
    /\ polls' = polls
    /\ cu_unchanged

\* One attempt of poll() that ends in a ValueError and is tried again after
\* wait_fixed(2).
CuPollRetry ==
    /\ parser = "cu"
    /\ pc = "polling"
    /\ \E outcome \in PollOutcomes :
          /\ retries(outcome, polls.n + 1)
          /\ polls' = polled(outcome)
    /\ pc' = "polling"
    /\ cu_unchanged

\* One attempt of poll() that raises and is not tried again: another
\* exception than ValueError, or the attempt at which retrying stops.
CuPollFail ==
    /\ parser = "cu"
    /\ pc = "polling"
    /\ \E outcome \in PollOutcomes :
          /\ raises_other(outcome)
             \/ (raises_value_error(outcome) /\ ~retries(outcome, polls.n + 1))
          /\ polls' = polled(outcome)
    /\ pc' = "failed"
    /\ cu_unchanged

\* One attempt of poll() that returns response_json.
CuPollReturn ==
    /\ parser = "cu"
    /\ pc = "polling"
    /\ \E outcome \in PollOutcomes :
          /\ ~raises_value_error(outcome)
          /\ ~raises_other(outcome)
          /\ polls' = polled(outcome)
    /\ pc' = "returned"
    /\ cu_unchanged

\* Line 139: response["result"]["contents"][0]["fields"] is returned, or the
\* lookup raises when the response holds no such entry.
CuResult ==
    /\ parser = "cu"
    /\ pc = "returned"
    /\ \E has_fields \in BOOLEAN : pc' = IF has_fields THEN "done" ELSE "failed"
    /\ polls' = polls
    /\ cu_unchanged

CuNext ==
    \/ CuPost
    \/ CuPollRetry
    \/ CuPollFail
    \/ CuPollReturn
    \/ CuResult

SpecCu == CuInit /\ [][CuNext]_vars

\* The steps of run_cu_image are taken as long as one is possible.
FairSpecCu == SpecCu /\ WF_vars(CuNext)

\* ------------------------------------------------------------------------
\* BlobManager.remove_blob
\*   a name or a path is a sequence of characters; the prefixes are letters
\*   only, so that the prefix stands for itself in the patterns of line 210.
\* ------------------------------------------------------------------------
RECURSIVE last_index(_, _)
last_index(s, c) ==
    IF s = <<>> THEN 0 ELSE IF s[Len(s)] = c THEN Len(s) ELSE last_index(SubSeq(s, 1, Len(s) - 1), c)

\* os.path.basename(p)
basename(p) == SubSeq(p, last_index(p, "/") + 1, Len(p))

\* os.path.splitext(p)[0] of a name without "/": the extension starts at the
\* last dot, unless the name has no dot after its leading dots.
splitext_root(p) ==
    LET dot == last_index(p, ".")
    IN  IF dot = 0 \/ \A i \in 1..dot : p[i] = "." THEN p ELSE SubSeq(p, 1, dot - 1)

Digits == {"0", "1", "2", "3", "4", "5", "6", "7", "8", "9"}

\* re.match(rf"{prefix}-\d+\.ext", blob_path): the pattern is matched at the
\* start of the name, and the name may go on after it.
re_match_page(prefix, ext, blob_path) ==
    LET head == prefix \o <<"-">>
    IN  /\ StartsWith(blob_path, head)
        /\ \E k \in 1..Len(blob_path) :
              /\ \A i \in 1..k : Len(head) + i <= Len(blob_path)
                                  /\ blob_path[Len(head) + i] \in Digits
              /\ StartsWith(SubSeq(blob_path, Len(head) + k + 1, Len(blob_path)),
                            <<".">> \o ext)

\* prefix = os.path.splitext(os.path.basename(path))[0]
blob_prefix(p) == splitext_root(basename(p))

\* list_blob_names(), or list_blob_names(name_starts_with=...)
listed(names, p) ==
    IF p = <<>> THEN names
    ELSE {n \in names : StartsWith(n, splitext_root(basename(blob_prefix(p[1]))))}

\* The condition of lines 207-212, under which the blob is passed over.
passed_over(p, blob_path) ==
    \/ /\ p # <<>>
       /\ \/ ~re_match_page(blob_prefix(p[1]), <<"p","d","f">>, blob_path)
          \/ ~re_match_page(blob_prefix(p[1]), <<"p","n","g">>, blob_path)
    \/ (p # <<>> /\ blob_path = basename(p[1]))

BlobNames ==
    { <<"a",".","p","d","f">>, <<"a","-","1",".","p","d","f">>, <<"a","-","1","2",".","p","n","g">>, <<"a","-","1",".","t","x","t">>,
      <<"a","-",".","p","d","f">>, <<"a","b","-","1",".","p","d","f">>, <<"b","-","1",".","p","d","f">> }

Paths == {<<>>, <<<<"x","/","a",".","p","d","f">>>>}

blob_unchanged == parsers_unchanged /\ UNCHANGED <<polls, path, stored>>

BlobInit ==
    /\ parsers_idle("blob")
    /\ polls = <<>>
    /\ path \in Paths
    /\ container \in {NoContainer} \cup [exists : {TRUE}, names : SUBSET BlobNames]
    /\ stored = container
    /\ blobs = {}

\* Lines 194-204: nothing is done without the container; otherwise the names
\* are listed.
BlobList ==
    /\ parser = "blob"
    /\ pc = "start"
    /\ IF container.exists
       THEN /\ blobs' = listed(container.names, path)
            /\ pc' = "listing"
       ELSE /\ blobs' = blobs
            /\ pc' = "done"
    /\ container' = container
    /\ blob_unchanged

\* Lines 205-213: the next listed name is passed over.
BlobSkip ==
    /\ parser = "blob"
    /\ pc = "listing"
    /\ \E blob_path \in blobs :
          /\ passed_over(path, blob_path)
          /\ blobs' = blobs \ {blob_path}
    /\ container' = container
    /\ pc' = pc
    /\ blob_unchanged

\* Lines 205-215: the next listed name is deleted, or delete_blob raises.
BlobDelete ==
    /\ parser = "blob"
    /\ pc = "listing"
    /\ \E blob_path \in blobs :
          /\ ~passed_over(path, blob_path)
          /\ \E deleted \in BOOLEAN :
                IF deleted
                THEN /\ container' = [container EXCEPT !.names = @ \ {blob_path}]
                     /\ blobs' = blobs \ {blob_path}
                     /\ pc' = pc
                ELSE /\ container' = container
                     /\ blobs' = blobs
                     /\ pc' = "failed"
    /\ blob_unchanged

\* The listing is exhausted and remove_blob returns.
BlobReturn ==
    /\ parser = "blob"
    /\ pc = "listing"
    /\ blobs = {}
    /\ pc' = "done"
    /\ UNCHANGED <<container, blobs>>
    /\ blob_unchanged

BlobNext ==
    \/ BlobList
    \/ BlobSkip
    \/ BlobDelete
    \/ BlobReturn

SpecBlob == BlobInit /\ [][BlobNext]_vars

\* ------------------------------------------------------------------------
\* What the parser is expected to produce, stated without its loops
\* ------------------------------------------------------------------------
Max(S) == CHOOSE x \in S : \A y \in S : y <= x

Min(S) == CHOOSE x \in S : \A y \in S : x <= y

Slots(k) == 0..(page_length(k) - 1)

SourceSlice(k) ==
    SubSeq(form_recognizer_results.content, page_offset(k) + 1, page_offset(k) + page_length(k))

\* Index j of page k is one of the indices the region's spans translate to.
Covers(region, k, j) ==
    \E m \in 1..Len(region.spans) :
       /\ region.spans[m].offset - page_offset(k) <= j
       /\ j < region.spans[m].offset - page_offset(k) + region.spans[m].length

Covering(regions, k, j) == {n \in 1..Len(regions) : Covers(regions[n], k, j)}

\* Every index of every span of the region lies inside the page.
InsidePage(region, k) ==
    \A m \in 1..Len(region.spans) :
       /\ region.spans[m].offset >= page_offset(k)
       /\ region.spans[m].offset + region.spans[m].length <= page_offset(k) + page_length(k)

\* The region that wrote index j last: the last figure covering it, or else
\* the last table covering it.
LastWriter(k, j) ==
    IF Covering(figures_on_page(k), k, j) # {}
    THEN <<"FIGURE", Max(Covering(figures_on_page(k), k, j)) - 1>>
    ELSE IF Covering(tables_on_page(k), k, j) # {}
    THEN <<"TABLE", Max(Covering(tables_on_page(k), k, j)) - 1>>
    ELSE NoneSlot

Owned(k, tag) == {j \in Slots(k) : LastWriter(k, j) = tag}

TableTags(k) == {<<"TABLE", n - 1>> : n \in 1..Len(tables_on_page(k))}

FigureTags(k) == {<<"FIGURE", n - 1>> : n \in 1..Len(figures_on_page(k))}

RegionOf(k, tag) ==
    IF tag[1] = "TABLE" THEN tables_on_page(k)[tag[2] + 1] ELSE figures_on_page(k)[tag[2] + 1]

Rendered(tag) == {n \in 1..Len(emitted) : emitted[n].tag = tag}

Texts(items) == Flatten([n \in 1..Len(items) |-> items[n].text])

Entries(op, k, object_idx) ==
    {c \in 1..Len(calls) : /\ calls[c].op = op
                           /\ calls[c].page_pos = k
                           /\ calls[c].object_idx = object_idx}

Raised == {c \in 1..Len(calls) : calls[c].op = "raised"}

DescriptionOf(k, object_idx) ==
    calls[Min(Entries("returned", k, object_idx))].args

Piece(k, j) ==
    LET tag == LastWriter(k, j)
    IN  IF tag = NoneSlot THEN <<form_recognizer_results.content[page_offset(k) + j + 1]>>
        ELSE IF j # Min(Owned(k, tag)) THEN <<>>
        ELSE IF tag[1] = "TABLE" THEN table_to_html(RegionOf(k, tag))
        ELSE figure_html(RegionOf(k, tag), DescriptionOf(k, tag[2]))

ExpectedAssembled(k) == Flatten([j \in 1..page_length(k) |-> Piece(k, j - 1)])

ExpectedText(k) == strip(str_remove(ExpectedAssembled(k), Marker))

RECURSIVE ExpectedOffset(_)
ExpectedOffset(k) == IF k = 1 THEN 0 ELSE ExpectedOffset(k - 1) + Len(ExpectedText(k - 1))

ExpectedPage(k) ==
    [page_num |-> page_at(k).page_number - 1, offset |-> ExpectedOffset(k),
     text |-> ExpectedText(k)]

PageComplete == parser = "di" /\ pc = "yielded"

\* ------------------------------------------------------------------------
\* Properties
\* ------------------------------------------------------------------------

\* C1: for both parsers the first yielded page has offset 0 and each later
\* page's offset is the previous page's offset plus the length of the
\* previous page's emitted text.
OffsetsAccumulate ==
    /\ yielded # <<>> => yielded[1].offset = 0
    /\ \A i \in 1..(Len(yielded) - 1) :
          yielded[i + 1].offset = yielded[i].offset + Len(yielded[i].text)

OffsetsAccumulateWitness ==
    /\ parser = "di"
    /\ Len(yielded) = 2
    /\ yielded[1].text # SourceSlice(1)
    /\ Len(yielded[1].text) # page_length(1)
    /\ yielded[2].offset = Len(yielded[1].text)
    /\ yielded[2].offset > 0

\* C2 as stated: every region of the page whose spans lie inside the page is
\* rendered exactly once in the assembled text.
RegionRenderedOnce ==
    PageComplete =>
        \A tag \in TableTags(page_pos) \cup FigureTags(page_pos) :
           InsidePage(RegionOf(page_pos, tag), page_pos) => Cardinality(Rendered(tag)) = 1

\* C2: every region of the page whose spans lie inside the page is rendered
\* exactly once in the assembled text if it is the last writer of at least
\* one index, and not at all if later regions cover all of its indices; the
\* assembled text is the rendered items one after the other.
RegionRenderedOnceIfOwner ==
    PageComplete =>
        /\ assembled = Texts(emitted)
        /\ \A tag \in TableTags(page_pos) \cup FigureTags(page_pos) :
              InsidePage(RegionOf(page_pos, tag), page_pos) =>
                 /\ Cardinality(Rendered(tag)) = IF Owned(page_pos, tag) # {} THEN 1 ELSE 0
                 /\ \A n \in Rendered(tag) :
                       emitted[n].text =
                          IF tag[1] = "TABLE" THEN table_to_html(RegionOf(page_pos, tag))
                          ELSE figure_html(RegionOf(page_pos, tag),
                                           DescriptionOf(page_pos, tag[2]))

RegionRenderedOnceWitness ==
    /\ PageComplete
    /\ \E tag \in TableTags(page_pos) \cup FigureTags(page_pos) :
          /\ Len(RegionOf(page_pos, tag).spans) = 2
          /\ InsidePage(RegionOf(page_pos, tag), page_pos)
          /\ Cardinality(Owned(page_pos, tag)) = 2
          /\ Cardinality(Rendered(tag)) = 1
          /\ \E other \in (TableTags(page_pos) \cup FigureTags(page_pos)) \ {tag} :
                Cardinality(Rendered(other)) = 1

\* C3 as stated: a page without tables and figures yields its source slice
\* with leading and trailing whitespace trimmed.
PlainPageIsTrimmedSlice ==
    (PageComplete /\ tables_on_page(page_pos) = <<>> /\ figures_on_page(page_pos) = <<>>)
        => page_text = strip(SourceSlice(page_pos))

\* C3: a page without tables and figures yields its source slice with the
\* occurrences of the PageBreak marker removed (one pass, left to right) and
\* then leading and trailing whitespace trimmed.
PlainPageIsSliceWithoutMarker ==
    (PageComplete /\ tables_on_page(page_pos) = <<>> /\ figures_on_page(page_pos) = <<>>)
        => /\ assembled = SourceSlice(page_pos)
           /\ page_text = strip(str_remove(SourceSlice(page_pos), Marker))
           /\ yielded[Len(yielded)].text = page_text

PlainPageWitness ==
    /\ PageComplete
    /\ tables_on_page(page_pos) = <<>>
    /\ figures_on_page(page_pos) = <<>>
    /\ str_find(SourceSlice(page_pos), Marker) # 0
    /\ page_text # strip(SourceSlice(page_pos))

\* C4: in the classification array an index covered by a table span and a
\* figure span is tagged with the figure, among regions of one kind the later
\* one wins, and the assembled text has the winner's markup for that index,
\* not the loser's.
LastWriterWins ==
    (parser = "di" /\ page_pos >= 1) =>
        /\ \A j \in Slots(page_pos) : mask_chars[j + 1] = LastWriter(page_pos, j)
        /\ \A j \in Slots(page_pos) :
              (/\ Covering(tables_on_page(page_pos), page_pos, j) # {}
               /\ Covering(figures_on_page(page_pos), page_pos, j) # {})
                  => mask_chars[j + 1][1] = "FIGURE"
        /\ pc = "yielded" =>
              /\ \A n \in 1..Len(emitted) :
                    emitted[n].tag = LastWriter(page_pos, emitted[n].slot)
              /\ \A j \in Slots(page_pos) :
                    LastWriter(page_pos, j) # NoneSlot =>
                       \E n \in Rendered(LastWriter(page_pos, j)) :
                          /\ emitted[n].slot <= j
                          /\ StartsWith(emitted[n].text,
                                        IF LastWriter(page_pos, j)[1] = "FIGURE"
                                        THEN FigureOpen ELSE TableOpen)

LastWriterWinsWitness ==
    /\ PageComplete
    /\ \E j \in Slots(page_pos) :
          /\ Covering(tables_on_page(page_pos), page_pos, j) # {}
          /\ Covering(figures_on_page(page_pos), page_pos, j) # {}
          /\ \E n \in 1..Len(emitted) :
                emitted[n].tag[1] = "FIGURE" /\ emitted[n].slot = j
          /\ \A n \in 1..Len(emitted) : emitted[n].tag[1] # "TABLE"

\* C5: a span's indices outside [0, page_length) are ignored: after every
\* write the array still has page_length slots, the span's indices inside the
\* range carry the region's tag, every other slot is as before, and in the
\* end the slots no span covers are Plain; the page is built without error.
OutOfRangeIgnored ==
    (parser = "di" /\ page_pos >= 1) =>
        /\ Len(mask_chars) = page_length(page_pos)
        /\ \A n \in 1..Len(page_writes(page_pos)) :
              LET w == page_writes(page_pos)[n]
                  before == apply_writes(blank_mask(page_pos),
                                         SubSeq(page_writes(page_pos), 1, n - 1),
                                         page_offset(page_pos))
                  after == write_span(before, w, page_offset(page_pos))
                  first == w.span.offset - page_offset(page_pos)
              IN  /\ Len(after) = page_length(page_pos)
                  /\ \A j \in Slots(page_pos) :
                        after[j + 1] = IF first <= j /\ j < first + w.span.length
                                       THEN w.tag ELSE before[j + 1]
        /\ \A j \in Slots(page_pos) :
              (/\ Covering(tables_on_page(page_pos), page_pos, j) = {}
               /\ Covering(figures_on_page(page_pos), page_pos, j) = {})
                  => mask_chars[j + 1] = NoneSlot
        /\ Raised = {} => pc \in {"describing", "yielded", "abandoned", "done"}

OutOfRangeIgnoredWitness ==
    /\ PageComplete
    /\ \E n \in 1..Len(page_writes(page_pos)) :
          LET w == page_writes(page_pos)[n]
              first == w.span.offset - page_offset(page_pos)
          IN  /\ \E i \in 0..(w.span.length - 1) :
                    first + i < 0 \/ first + i >= page_length(page_pos)
              /\ \E i \in 0..(w.span.length - 1) :
                    /\ first + i \in Slots(page_pos)
                    /\ mask_chars[first + i + 1] = w.tag

\* C6: a failure of the analysis call, of a figure crop or of a figure
\* description on page k ends the parse at once: the failed call was issued
\* once, no call follows the failure, page k and the later pages are not
\* yielded, and every page yielded before is the page a parse of the same
\* document yields.
FailurePropagates ==
    /\ [](Raised # {} =>
            /\ pc = "failed"
            /\ Raised = {Len(calls)}
            /\ LET r == calls[Len(calls)]
               IN  /\ Cardinality(Entries(r.args, r.page_pos, r.object_idx)) = 1
                   /\ Len(yielded) = IF r.args = "analyze" THEN 0 ELSE r.page_pos - 1)
    /\ [](pc = "failed" => Raised # {})
    /\ [](parser = "di" => \A k \in 1..Len(yielded) : yielded[k] = ExpectedPage(k))
    /\ [][pc = "failed" => (pc' = "failed" /\ yielded' = yielded /\ calls' = calls)]_vars

FailurePropagatesWitness ==
    /\ pc = "failed"
    /\ Len(yielded) = 1
    /\ yielded[1].text # SourceSlice(1)
    /\ calls[Len(calls)] = call("raised", 2, 0, "describe")

\* C7: no call is issued for a page the caller has not requested: the
\* analysis call follows the first request, a crop or description call of
\* page k follows the request that comes after k - 1 yielded pages, and once
\* the caller stopped after a page no further call is issued.
PullBased ==
    /\ [](/\ calls # <<>> => requests >= 1
          /\ Len(yielded) <= requests
          /\ \A c \in 1..Len(calls) :
                /\ calls[c].page_pos <= requests
                /\ calls[c].page_pos <= Len(yielded) + 1
                /\ pc \in {"yielded", "abandoned", "done"} => calls[c].page_pos <= Len(yielded))
    /\ [][pc = "abandoned" => (pc' = "abandoned" /\ calls' = calls /\ yielded' = yielded)]_vars

PullBasedWitness ==
    /\ pc = "abandoned"
    /\ Len(yielded) = 1
    /\ Len(form_recognizer_results.pages) = 2
    /\ figures_on_page(2) # <<>>
    /\ Entries("describe", 1, 0) # {}
    /\ Entries("describe", 2, 0) = {}

\* C8 as stated: when a page is complete the describer has been invoked
\* exactly once for each figure of the page.
EveryFigureDescribedOnce ==
    PageComplete =>
        \A n \in 1..Len(figures_on_page(page_pos)) :
           Cardinality(Entries("describe", page_pos, n - 1)) = 1

\* C8: the describer is invoked at most once for a figure of a page, exactly
\* once by the time the page is complete if the figure is the last writer of
\* at least one index of the page, and never if it is of none; the analysis
\* call is the first call, issued once, and no page is yielded before it.
OwningFigureDescribedOnce ==
    parser = "di" =>
        /\ \A k \in 1..Len(form_recognizer_results.pages) :
              \A n \in 1..Len(figures_on_page(k)) :
                 /\ Cardinality(Entries("describe", k, n - 1)) <= 1
                 /\ k <= Len(yielded) =>
                       Cardinality(Entries("describe", k, n - 1)) =
                          IF Owned(k, <<"FIGURE", n - 1>>) # {} THEN 1 ELSE 0
        /\ \A c \in 1..Len(calls) :
              calls[c].op = "describe" =>
                 /\ calls[c].page_pos \in 1..Len(form_recognizer_results.pages)
                 /\ calls[c].object_idx + 1 \in 1..Len(figures_on_page(calls[c].page_pos))
        /\ Cardinality(Entries("analyze", 0, -1)) = IF pc = "start" THEN 0 ELSE 1
        /\ calls # <<>> => calls[1].op = "analyze"
        /\ yielded # <<>> => calls # <<>>

OwningFigureDescribedOnceWitness ==
    /\ PageComplete
    /\ Len(figures_on_page(page_pos)) = 2
    /\ Owned(page_pos, <<"FIGURE", 0>>) = {}
    /\ Entries("describe", page_pos, 0) = {}
    /\ Cardinality(Owned(page_pos, <<"FIGURE", 1>>)) >= 2
    /\ Cardinality(Entries("describe", page_pos, 1)) = 1

\* C9: the assembled text, before the marker is removed and the text trimmed,
\* is built in slot order: the items follow each other by ascending slot, a
\* plain index contributes its source character, a region contributes its
\* markup at the first index tagged with it, and the text is the items one
\* after the other.
AssembledInSlotOrder ==
    PageComplete =>
        /\ \A a, b \in 1..Len(emitted) : a < b => emitted[a].slot < emitted[b].slot
        /\ \A j \in Slots(page_pos) :
              LET tag == LastWriter(page_pos, j)
                  at == {n \in 1..Len(emitted) : emitted[n].slot = j}
              IN  IF tag = NoneSlot \/ j = Min(Owned(page_pos, tag))
                  THEN \E n \in at : /\ at = {n}
                                     /\ emitted[n].tag = tag
                                     /\ emitted[n].text = Piece(page_pos, j)
                  ELSE at = {}
        /\ \A n \in 1..Len(emitted) : emitted[n].slot \in Slots(page_pos)
        /\ assembled = Texts(emitted)
        /\ assembled = ExpectedAssembled(page_pos)

AssembledInSlotOrderWitness ==
    /\ PageComplete
    /\ \E a, b, c \in 1..Len(emitted) :
          /\ a < b /\ b < c
          /\ emitted[a].tag = NoneSlot
          /\ emitted[b].tag[1] = "FIGURE"
          /\ emitted[c].tag = NoneSlot
    /\ \E t \in TableTags(page_pos) : Rendered(t) # {}

\* C10: table_to_html emits one <tr> per row index below row_count, in
\* ascending order, holding exactly the cells of that row by ascending column
\* index, cells of equal column index in their original order; a cell is
\* a <th> exactly when its kind is columnHeader or rowHeader and a <td>
\* otherwise; colSpan (rowSpan) is written exactly when the column span (row
\* span) is present and greater than 1.
Occurrences(s, p) ==
    Cardinality({i \in 1..(Len(s) - Len(p) + 1) : SubSeq(s, i, i + Len(p) - 1) = p})

RowPositions(table, r) == {p \in 1..Len(table.cells) : table.cells[p].row_index = r}

\* The cells of the row that come before cell p.
Before(table, r, p) ==
    {q \in RowPositions(table, r) :
        \/ table.cells[q].column_index < table.cells[p].column_index
        \/ table.cells[q].column_index = table.cells[p].column_index /\ q < p}

ExpectedRow(table, r) ==
    [n \in 1..Cardinality(RowPositions(table, r)) |->
        table.cells[CHOOSE p \in RowPositions(table, r) :
                       Cardinality(Before(table, r, p)) = n - 1]]

ExpectedCell(cell) ==
    LET name == IF cell.kind = "columnHeader" \/ cell.kind = "rowHeader"
                THEN <<"t","h">> ELSE <<"t","d">>
        col == IF cell.column_span \in {<<>>, <<0>>, <<1>>} THEN <<>>
               ELSE <<" ","c","o","l","S","p","a","n","=">> \o str_int(cell.column_span[1])
        row == IF cell.row_span \in {<<>>, <<0>>, <<1>>} THEN <<>>
               ELSE <<" ","r","o","w","S","p","a","n","=">> \o str_int(cell.row_span[1])
    IN  <<"<">> \o name \o col \o row \o <<">">> \o html_escape(cell.content)
        \o <<"<","/">> \o name \o <<">">>

ExpectedTable(table) ==
    <<"<","f","i","g","u","r","e",">","<","t","a","b","l","e",">">>
    \o Flatten([r \in 1..table.row_count |->
                  <<"<","t","r",">">>
                  \o Flatten([n \in 1..Len(ExpectedRow(table, r - 1)) |->
                                 ExpectedCell(ExpectedRow(table, r - 1)[n])])
                  \o <<"<","/","t","r",">">>])
    \o <<"<","/","t","a","b","l","e",">","<","/","f","i","g","u","r","e",">">>

Shown(table) == {p \in 1..Len(table.cells) : table.cells[p].row_index < table.row_count}

TableMarkupStructure ==
    (parser = "table" /\ pc = "done") =>
        LET table == form_recognizer_results.tables[1]
        IN  /\ page_text = ExpectedTable(table)
            /\ Occurrences(page_text, <<"<","t","r",">">>) = table.row_count
            /\ Occurrences(page_text, <<"<","t","h">>) =
                  Cardinality({p \in Shown(table) :
                                  table.cells[p].kind \in {"columnHeader", "rowHeader"}})
            /\ Occurrences(page_text, <<"<","t","d">>) =
                  Cardinality({p \in Shown(table) :
                                  table.cells[p].kind \notin {"columnHeader", "rowHeader"}})
            /\ Occurrences(page_text, <<"c","o","l","S","p","a","n">>) =
                  Cardinality({p \in Shown(table) :
                                  /\ table.cells[p].column_span # <<>>
                                  /\ table.cells[p].column_span[1] > 1})
            /\ Occurrences(page_text, <<"r","o","w","S","p","a","n">>) =
                  Cardinality({p \in Shown(table) :
                                  /\ table.cells[p].row_span # <<>>
                                  /\ table.cells[p].row_span[1] > 1})

TableMarkupWitness ==
    /\ parser = "table"
    /\ pc = "done"
    /\ LET table == form_recognizer_results.tables[1]
       IN  /\ table.row_count = 2
           /\ Len(table.cells) = 2
           /\ table.cells[1].row_index = 1 /\ table.cells[2].row_index = 1
           /\ table.cells[1].column_index = table.cells[2].column_index
           /\ table.cells[1].kind = "stubHead" /\ table.cells[2].kind = "rowHeader"
           /\ table.cells[1].column_span = <<1>> /\ table.cells[2].column_span = <<2>>
    /\ Occurrences(page_text, <<"<","t","r",">">>) = 2

\* C11 as stated: the markup returned for a figure is "<figure><figcaption>",
\* the title, the description and "</figcaption></figure>", with nothing
\* between the title and the description.
FigureMarkupWithoutBreak ==
    (parser = "figure" /\ pc = "done") =>
        page_text =
            <<"<","f","i","g","u","r","e",">","<","f","i","g","c","a","p","t","i","o","n",">">>
            \o (IF the_figure.caption = <<>> THEN <<>> ELSE the_figure.caption[1])
            \o calls[Len(calls)].args
            \o <<"<","/","f","i","g","c","a","p","t","i","o","n",">",
                 "<","/","f","i","g","u","r","e",">">>

\* C11: the markup returned for a figure is "<figure><figcaption>", the
\* title, "<br>", the description and "</figcaption></figure>", the title
\* being the caption's content if there is a caption and empty otherwise.
FigureMarkupWithBreak ==
    (parser = "figure" /\ pc = "done") =>
        /\ calls[Len(calls)].op = "returned"
        /\ page_text =
            <<"<","f","i","g","u","r","e",">","<","f","i","g","c","a","p","t","i","o","n",">">>
            \o (IF the_figure.caption = <<>> THEN <<>> ELSE the_figure.caption[1])
            \o <<"<","b","r",">">>
            \o calls[Len(calls)].args
            \o <<"<","/","f","i","g","c","a","p","t","i","o","n",">",
                 "<","/","f","i","g","u","r","e",">">>

FigureMarkupWitness ==
    /\ parser = "figure"
    /\ pc = "done"
    /\ the_figure.caption = <<<<"F">>>>
    /\ calls[Len(calls)].args = <<"d">>
    /\ Len(page_text) = 48

\* C12 as stated: the page and the box of the crop both come from the
\* figure's first bounding region.
CropFromFirstRegion ==
    parser = "figure" =>
        \A c \in 1..Len(calls) :
           calls[c].op = "crop" =>
              calls[c].args =
                 <<the_figure.bounding_regions[1].page_number - 1,
                   <<the_figure.bounding_regions[1].polygon[1],
                     the_figure.bounding_regions[1].polygon[2],
                     the_figure.bounding_regions[1].polygon[5],
                     the_figure.bounding_regions[1].polygon[6]>>>>

\* C13 as stated: the status poll makes at most 60 polls, polls again only
\* after a poll that reported Running, returns on the first status that is
\* neither Running nor Failed, and fails without a further poll on Failed,
\* on an HTTP error and after 60 polls.
PollsAgainOnlyWhileRunning ==
    parser = "cu" =>
        /\ polls.n <= 60
        /\ polls.retried \subseteq {"Running"}
        /\ pc \in {"returned", "done"} => polls.last \notin {"Running", "Failed", "http_error"}
        /\ polls.last \in {"Failed", "http_error"} => pc = "failed"
        /\ polls.last \in Statuses \ {"Running", "Failed"} => pc # "polling"
        /\ (polls.n = 60 /\ polls.last = "Running") => pc = "failed"

\* C13, the rest of the statement: at most 60 polls are made, poll() returns
\* only on a status other than Running and Failed and always on such a status,
\* Failed and an HTTP error end the poll with a failure, and so does the 60th
\* poll that would be tried again.
PollBoundedAndStops ==
    parser = "cu" =>
        /\ polls.n <= 60
        /\ pc \in {"returned", "done"} => polls.last \in Statuses \ {"Running", "Failed"}
        /\ polls.last \in {"Failed", "http_error"} => pc = "failed"
        /\ polls.last \in Statuses \ {"Running", "Failed"} => pc # "polling"
        /\ (polls.n = 60 /\ polls.last \in {"Running", "undecodable"}) => pc = "failed"

\* C13, termination: under FairSpecCu run_cu_image ends.
PollTerminates == <>(pc \in {"done", "failed"})

\* C14 as stated: after remove_blob(path) on an existing container the blobs
\* named <prefix>-<digits>.pdf or <prefix>-<digits>.png are deleted and every
\* other blob is left, the one named basename(path) among them; after
\* remove_blob(None) the container is empty.
PageBlobOf(p, n) ==
    \E k \in 1..(Len(n) - Len(splitext_root(basename(p))) - 5),
       ext \in {<<"p","d","f">>, <<"p","n","g">>} :
       /\ n = splitext_root(basename(p)) \o <<"-">>
              \o SubSeq(n, Len(splitext_root(basename(p))) + 2,
                           Len(splitext_root(basename(p))) + 1 + k)
              \o <<".">> \o ext
       /\ \A i \in 1..k : n[Len(splitext_root(basename(p))) + 1 + i] \in Digits

RemovesPagesOfPath ==
    (parser = "blob" /\ pc = "done" /\ stored.exists) =>
        container.names =
            IF path = <<>> THEN {}
            ELSE {n \in stored.names : ~PageBlobOf(path[1], n)}

====
